---- MODULE Spec2Model ----
(***************************************************************************)
(* The kanban task board of src/unnamed/part_000 (a single React           *)
(* component, App) as a state machine.                                     *)
(*                                                                         *)
(* JavaScript values are modelled as follows.  A string is a sequence of   *)
(* one-character strings; null is NULL, which is no string because its     *)
(* single element is not one character.  An object is a function from key  *)
(* names to values, an array is a sequence.  The text kept by localStorage *)
(* is a sequence of JSON lexemes, each lexeme a sequence of characters.    *)
(***************************************************************************)
EXTENDS Integers, Sequences, FiniteSets, TLC

\* ------------------------------------------------------------------ bounds
\* The number of events (handler and timer callbacks) of one session.
MaxOps == 3
\* The clock runs over 0..MaxClock milliseconds.
MaxClock == 1

\* --------------------------------------------------------------- constants
NULL == <<"NULL">>

Backlog == <<"B","a","c","k","l","o","g">>
InProgress == <<"I","n"," ","P","r","o","g","r","e","s","s">>
ReviewQA == <<"R","e","v","i","e","w","/","Q","A">>
Completed == <<"C","o","m","p","l","e","t","e","d">>
COLUMNS == <<Backlog, InProgress, ReviewQA, Completed>>

Critical == <<"C","r","i","t","i","c","a","l">>
High == <<"H","i","g","h">>
Medium == <<"M","e","d","i","u","m">>
Low == <<"L","o","w">>
PRIORITIES == <<Critical, High, Medium, Low>>

Internal == <<"I","n","t","e","r","n","a","l">>
Other == <<"O","t","h","e","r">>

MAX_TITLE == 100
MAX_NOTES == 2000

DEFAULT_TASK ==
  [title |-> <<>>, priority |-> Medium, category |-> Internal,
   due |-> <<>>, notes |-> <<>>, stage |-> Backlog]

\* The key under which the collection is kept in localStorage.
StorageKey == "cybertasks"

\* ----------------------------------------------------------------- strings
\* The string of n copies of the character c.
Rep(n, c) == [i \in 1..n |-> c]

Whitespace == {" ", "\t", "\n"}

RECURSIVE TrimStart(_)
TrimStart(s) ==
  IF s # <<>> /\ Head(s) \in Whitespace THEN TrimStart(Tail(s)) ELSE s

RECURSIVE TrimEnd(_)
TrimEnd(s) ==
  IF s # <<>> /\ s[Len(s)] \in Whitespace
    THEN TrimEnd(SubSeq(s, 1, Len(s) - 1))
    ELSE s

\* String.prototype.trim
Trim(s) == TrimEnd(TrimStart(s))

\* JavaScript truthiness of a string-or-null value: null and '' are falsy.
Truthy(v) == v # NULL /\ v # <<>>

DigitChars ==
  <<"0","1","2","3","4","5","6","7","8","9","a","b","c","d","e","f","g","h",
    "i","j","k","l","m","n","o","p","q","r","s","t","u","v","w","x","y","z">>

\* Number.prototype.toString(radix) of a natural number.
RECURSIVE NumToString(_, _)
NumToString(n, radix) ==
  IF n < radix
    THEN <<DigitChars[n + 1]>>
    ELSE NumToString(n \div radix, radix) \o <<DigitChars[(n % radix) + 1]>>

\* Date.prototype.toISOString of the instant t (milliseconds on the model's
\* clock): a string that is a function of the instant alone.
ToISOString(t) == <<"T">> \o NumToString(t, 10) \o <<"Z">>

\* What Math.random().toString(36).slice(2) can be: the digits after "0.",
\* and the empty string when Math.random() returns 0 ("0".slice(2)).
RandomTails == {<<>>, <<"i">>}

\* genId at the instant t, with the given outcome of Math.random.
Radix == 36
genId(t, tail) == NumToString(t, Radix) \o tail

\* -------------------------------------------------------------------- JSON
TaskKeys ==
  <<"title", "priority", "category", "due", "notes", "stage",
    "id", "createdAt", "completedAt">>

Quote == "\""
LexNull == <<"n","u","l","l">>
LexOpenArr == <<"[">>
LexCloseArr == <<"]">>
LexOpenObj == <<"{">>
LexCloseObj == <<"}">>
LexComma == <<",">>
LexColon == <<":">>

\* A serializer that writes null as the string "null".
StringifyValue_QuotesNull(v) ==
  IF v = NULL THEN <<Quote>> \o LexNull \o <<Quote>> ELSE <<Quote>> \o v \o <<Quote>>

\* The lexeme of a string or null value.
StringifyValue(v) ==
  IF v = NULL THEN LexNull ELSE <<Quote>> \o v \o <<Quote>>

\* The lexemes of the object x, its keys in the order of TaskKeys.
RECURSIVE StringifyMembers(_, _, _)
StringifyMembers(x, i, first) ==
  IF i > Len(TaskKeys) THEN <<>>
  ELSE IF TaskKeys[i] \notin DOMAIN x THEN StringifyMembers(x, i + 1, first)
  ELSE (IF first THEN <<>> ELSE <<LexComma>>)
       \o << <<Quote, TaskKeys[i], Quote>>, LexColon, StringifyValue(x[TaskKeys[i]]) >>
       \o StringifyMembers(x, i + 1, FALSE)

StringifyObject(x) ==
  <<LexOpenObj>> \o StringifyMembers(x, 1, TRUE) \o <<LexCloseObj>>

RECURSIVE StringifyItems(_, _)
StringifyItems(arr, i) ==
  IF i > Len(arr) THEN <<>>
  ELSE (IF i = 1 THEN <<>> ELSE <<LexComma>>)
       \o StringifyObject(arr[i]) \o StringifyItems(arr, i + 1)

\* JSON.stringify of an array of objects.
JSONstringify(arr) ==
  <<LexOpenArr>> \o StringifyItems(arr, 1) \o <<LexCloseArr>>

IsStringLex(l) == Len(l) >= 2 /\ l[1] = Quote /\ l[Len(l)] = Quote
Unquote(l) == SubSeq(l, 2, Len(l) - 1)

\* A parse result: ok, the JavaScript type of the value, the value, and the
\* lexemes left over.
ParseFail == [ok |-> FALSE, type |-> "none", val |-> <<>>, rest |-> <<>>]
Parsed(type, val, rest) == [ok |-> TRUE, type |-> type, val |-> val, rest |-> rest]

\* The members of an object after "{": key ":" value, separated by commas.
\* Member values are strings or null.
RECURSIVE ParseMembers(_, _, _)
ParseMembers(toks, acc, first) ==
  IF toks = <<>> THEN ParseFail
  ELSE IF Head(toks) = LexCloseObj /\ first THEN Parsed("object", acc, Tail(toks))
  ELSE IF Len(toks) < 4 \/ ~IsStringLex(toks[1]) \/ Len(toks[1]) # 3
          \/ toks[2] # LexColon
          \/ ~(toks[3] = LexNull \/ IsStringLex(toks[3]))
    THEN ParseFail
  ELSE LET k == toks[1][2]
           v == IF toks[3] = LexNull THEN NULL ELSE Unquote(toks[3])
           more == [kk \in (DOMAIN acc) \cup {k} |->
                      IF kk = k THEN v ELSE acc[kk]]
       IN  IF toks[4] = LexCloseObj
             THEN Parsed("object", more, SubSeq(toks, 5, Len(toks)))
           ELSE IF toks[4] = LexComma
             THEN ParseMembers(SubSeq(toks, 5, Len(toks)), more, FALSE)
           ELSE ParseFail

\* The items of an array after "[": objects separated by commas.
RECURSIVE ParseItems(_, _, _)
ParseItems(toks, acc, first) ==
  IF toks = <<>> THEN ParseFail
  ELSE IF Head(toks) = LexCloseArr /\ first THEN Parsed("array", acc, Tail(toks))
  ELSE IF Head(toks) # LexOpenObj THEN ParseFail
  ELSE LET o == ParseMembers(Tail(toks), <<>>, TRUE)
       IN  IF ~o.ok \/ o.rest = <<>> THEN ParseFail
           ELSE IF Head(o.rest) = LexCloseArr
             THEN Parsed("array", Append(acc, o.val), Tail(o.rest))
           ELSE IF Head(o.rest) = LexComma
             THEN ParseItems(Tail(o.rest), Append(acc, o.val), FALSE)
           ELSE ParseFail

\* One JSON value at the head of the lexemes.
ParseValue(toks) ==
  IF toks = <<>> THEN ParseFail
  ELSE IF Head(toks) = LexNull THEN Parsed("null", <<>>, Tail(toks))
  ELSE IF IsStringLex(Head(toks)) THEN Parsed("string", <<>>, Tail(toks))
  ELSE IF Head(toks) = LexOpenObj THEN
    LET o == ParseMembers(Tail(toks), <<>>, TRUE)
    IN  IF o.ok THEN Parsed("object", <<>>, o.rest) ELSE ParseFail
  ELSE IF Head(toks) = LexOpenArr THEN ParseItems(Tail(toks), <<>>, TRUE)
  ELSE ParseFail

\* JSON.parse: ok is FALSE where JSON.parse throws a SyntaxError.  The value
\* of an array is the sequence of its objects; the value of anything else is
\* not kept (nothing reads it), only its type.
JSONparse(text) ==
  LET r == ParseValue(text)
  IN  IF r.ok /\ r.rest = <<>> THEN r ELSE ParseFail

\* ---------------------------------------------------------- object helpers
UNDEFINED == <<"UNDEFINED">>

\* x.k, undefined when the object has no such key.
Get(x, k) == IF k \in DOMAIN x THEN x[k] ELSE UNDEFINED

\* { ...x, ...y }: the keys of both, y's value where both have the key.
Spread(x, y) ==
  [k \in (DOMAIN x) \cup (DOMAIN y) |-> IF k \in DOMAIN y THEN y[k] ELSE x[k]]

\* COLUMNS.indexOf(stage), zero-based, -1 when absent.
IndexOfColumn(stage) ==
  IF \E i \in 1..Len(COLUMNS) : COLUMNS[i] = stage
    THEN (CHOOSE i \in 1..Len(COLUMNS) : COLUMNS[i] = stage) - 1
    ELSE -1

\* An index that wraps around the ends of the array.
ColumnAt_Wraps(i) == COLUMNS[(i % Len(COLUMNS)) + 1]

\* COLUMNS[i] for a zero-based i, undefined outside the array.
ColumnAt(i) == IF i >= 0 /\ i < Len(COLUMNS) THEN COLUMNS[i + 1] ELSE UNDEFINED

\* ------------------------------------------------------------------ inputs
TitleOk == <<"a">>
TitleMax == Rep(MAX_TITLE, "x")
TitleLong == Rep(MAX_TITLE + 1, "x")
TitleBlank == <<" ", " ">>
NotesShort == <<"n">>
NotesMax == Rep(MAX_NOTES, "y")
NotesLong == Rep(MAX_NOTES + 1, "y")
DueDate == <<"2","0","2","0","-","0","1","-","0","1">>

DraftPlain == [DEFAULT_TASK EXCEPT !.title = TitleOk]
DraftFull ==
  [title |-> TitleMax, priority |-> High, category |-> Other,
   due |-> DueDate, notes |-> NotesMax, stage |-> Completed]
DraftBlankTitle == [DEFAULT_TASK EXCEPT !.title = TitleBlank]
DraftLongTitle == [DraftFull EXCEPT !.title = TitleLong, !.notes = <<>>]
DraftLongNotes == [DraftPlain EXCEPT !.notes = NotesLong]

\* What the user may leave typed in the task form and in the notes box.
Drafts == {DraftPlain, DraftFull, DraftBlankTitle, DraftLongTitle, DraftLongNotes}
NoteTexts == {NotesMax, NotesLong}

\* An id no task carries.
NoSuchId == <<"?">>

\* A collection saved by an earlier session.
SavedTasks ==
  << [title |-> <<"o","n","e">>, priority |-> Medium, category |-> Internal,
      due |-> <<>>, notes |-> <<>>, stage |-> Backlog,
      id |-> <<"p","1">>, createdAt |-> ToISOString(0), completedAt |-> NULL],
     [title |-> <<"t","w","o">>, priority |-> Critical, category |-> Other,
      due |-> DueDate, notes |-> NotesShort, stage |-> Completed,
      id |-> <<"p","2">>, createdAt |-> ToISOString(0),
      completedAt |-> ToISOString(0)] >>

StoreAbsent == [present |-> FALSE, text |-> <<>>]
StoreOf(text) == [present |-> TRUE, text |-> text]

\* What the key may hold when the page is opened.
StoreContents ==
  { StoreAbsent,
    StoreOf(<<>>),                                \* ''
    StoreOf(<<LexOpenArr, LexOpenObj>>),          \* '[{'  (does not parse)
    StoreOf(<<LexNull>>),                         \* 'null'
    StoreOf(<<LexOpenObj, LexCloseObj>>),         \* '{}'
    StoreOf(<<LexOpenArr, LexOpenObj, <<Quote, "id", Quote>>, LexColon,
              <<Quote, "p", "9", Quote>>, LexCloseObj, LexCloseArr>>),
    StoreOf(JSONstringify(SavedTasks)) }

\* ---------------------------------------------------------------- messages
NoToast == "null"
ToastLoadFailed == "Could not load saved tasks."
ToastSaveFailed == "Could not save. Storage may be full."
ToastUpdated == "Task updated."
ToastCreated == "Task created."
ToastDeleted == "Task deleted."
ToastNotesExceed == "Notes exceed 2000 chars."
ToastNotesSaved == "Notes saved."
ToastNoExport == "No tasks to export."
ToastExported == "Export successful!"
ToastExportFailed == "Export failed. Please try again."
ToastMoved == "Moved to column"

ErrTitleRequired == "Title is required."
ErrTitleMax == "Max 100 characters."
ErrNotesMax == "Max 2000 characters."
NoErrors == [k \in {} |-> ""]

\* ------------------------------------------------------------------- state
\* The search box, the export menu and the highlighted drop column (search,
\* exportMenu, dragOver) change what is drawn only and are left out.
VARIABLES
  tasks,        \* useState([]): the items of the collection when it is an array
  tasksType,    \* the JavaScript type of the value held by the tasks state
  loaded,       \* useState(false)
  showForm, formData, formErrors, editId,
  activeNote, noteText,
  dragging,
  toast,
  store,        \* localStorage under StorageKey
  downloads,    \* the files written by XLSX.writeFile
  effects,      \* the effects of the last commit still to run, in order
  dirty,        \* the effects of the mount have set state not yet rendered
  crashed,      \* a render threw: React has unmounted the component
  now,          \* the clock
  ops,          \* the events handled so far
  op,           \* the handler that ran last, with its argument
  writeFailed   \* some localStorage.setItem has thrown

vars ==
  <<tasks, tasksType, loaded, showForm, formData, formErrors, editId,
    activeNote, noteText, dragging, toast, store, downloads, effects, dirty,
    crashed, now, ops, op, writeFailed>>

formVars == <<showForm, formData, formErrors, editId>>
noteVars == <<activeNote, noteText>>
envVars == <<store, downloads, writeFailed>>

\* The record of a call: the handler, and its argument as a string (id) or a
\* number (n).
Op(name, id, n) == [name |-> name, id |-> id, n |-> n]

LoadFx == [fx |-> "load", tasks |-> <<>>, loaded |-> FALSE]
\* A persist effect that takes the load for done whatever its render saw.
PersistFx_Ungated(t, l) == [fx |-> "persist", tasks |-> t, loaded |-> TRUE]

\* The persist effect of a render: the tasks and the loaded of its closure.
PersistFx(t, l) == [fx |-> "persist", tasks |-> t, loaded |-> l]

\* The state after the first render has been committed: the two effects of
\* lines 132 and 143 are pending, in the order of their declaration.
Init ==
  /\ tasks = <<>>
  /\ tasksType = "array"
  /\ loaded = FALSE
  /\ showForm = FALSE
  /\ formData = DEFAULT_TASK
  /\ formErrors = NoErrors
  /\ editId = NULL
  /\ activeNote = NULL
  /\ noteText = <<>>
  /\ dragging = NULL
  /\ toast = NoToast
  /\ store \in StoreContents
  /\ downloads = 0
  /\ effects = <<LoadFx, PersistFx(<<>>, FALSE)>>
  /\ dirty = FALSE
  /\ crashed = FALSE
  /\ now = 0
  /\ ops = 0
  /\ op = Op("mount", NULL, 0)
  /\ writeFailed = FALSE

\* ----------------------------------------------------------------- effects
\* Lines 132-140.  localStorage.getItem yields null for an absent key.
LoadEffect ==
  /\ ~crashed
  /\ effects # <<>>
  /\ Head(effects).fx = "load"
  /\ LET s == IF store.present THEN store.text ELSE NULL
         p == JSONparse(s)
     IN  IF ~Truthy(s)
           THEN UNCHANGED <<tasks, tasksType, toast>>
         ELSE IF ~p.ok
           THEN /\ toast' = ToastLoadFailed
                /\ UNCHANGED <<tasks, tasksType>>
         ELSE /\ tasks' = (IF p.type = "array" THEN p.val ELSE <<>>)
              /\ tasksType' = p.type
              /\ UNCHANGED toast
  /\ loaded' = TRUE
  /\ dirty' = TRUE
  /\ effects' = Tail(effects)
  /\ op' = Op("load", NULL, 0)
  /\ UNCHANGED <<formVars, noteVars, dragging, envVars, crashed, now, ops>>

\* What the render reads of the collection (lines 160-170): tasks.filter, and
\* x.title.toLowerCase() of every element.
RenderThrows(type, arr) ==
  \/ type # "array"
  \/ \E i \in 1..Len(arr) :
       Get(arr[i], "title") = UNDEFINED \/ Get(arr[i], "title") = NULL

\* A commit that schedules no persist effect, as with tasks missing from the
\* effect's dependencies.
Commit_SchedulesNothing(type, arr, isLoaded) ==
  /\ effects' = <<>>
  /\ crashed' = (crashed \/ RenderThrows(type, arr))

\* React renders again after a state change and commits: the persist effect
\* (deps [tasks, loaded]) is scheduled with the values of that render.  A
\* render that throws unmounts the component, there being no error boundary.
Commit(type, arr, isLoaded) ==
  IF RenderThrows(type, arr)
    THEN /\ crashed' = TRUE
         /\ effects' = <<>>
    ELSE /\ effects' = <<PersistFx(arr, isLoaded)>>
         /\ UNCHANGED crashed

\* The render that follows the effects of the mount, which have called
\* setTasks and setLoaded.
Render ==
  /\ ~crashed
  /\ dirty
  /\ effects = <<>>
  /\ dirty' = FALSE
  /\ Commit(tasksType, tasks, loaded)
  /\ UNCHANGED <<tasks, tasksType, loaded, formVars, noteVars, dragging, toast,
                 envVars, now, ops, op>>

\* setTasks in a handler: React renders and commits when the handler has
\* returned, before anything else runs.
SetTasks(arr) ==
  /\ tasks' = arr
  /\ Commit(tasksType, arr, loaded)

\* Lines 143-147.  setItem either replaces the value or throws.
PersistEffect ==
  /\ ~crashed
  /\ effects # <<>>
  /\ Head(effects).fx = "persist"
  /\ effects' = Tail(effects)
  /\ IF ~Head(effects).loaded
       THEN UNCHANGED <<store, toast, writeFailed>>
       ELSE \/ /\ store' = StoreOf(JSONstringify(Head(effects).tasks))
               /\ UNCHANGED <<toast, writeFailed>>
            \/ /\ toast' = ToastSaveFailed
               /\ writeFailed' = TRUE
               /\ UNCHANGED store
  /\ UNCHANGED <<tasks, tasksType, loaded, formVars, noteVars, dragging,
                 downloads, dirty, crashed, now, ops, op>>

\* A handler runs when the component is mounted and nothing is pending.
Idle == ~crashed /\ loaded /\ effects = <<>> /\ ~dirty

Handler(name, id, n) ==
  /\ Idle
  /\ ops < MaxOps
  /\ ops' = ops + 1
  /\ op' = Op(name, id, n)

TaskIds == {Get(tasks[i], "id") : i \in 1..Len(tasks)}

\* ------------------------------------------------------------- the task form
\* A validation without the rule for notes.
validateForm_NoNotesRule(data) ==
  LET e0 == NoErrors
      e1 == IF Trim(data.title) = <<>>
              THEN Spread(e0, [title |-> ErrTitleRequired]) ELSE e0
      e2 == IF Len(data.title) > MAX_TITLE
              THEN Spread(e1, [title |-> ErrTitleMax]) ELSE e1
  IN  e2

\* A validation without the rule for the length of the title.
validateForm_NoTitleMax(data) ==
  LET e0 == NoErrors
      e1 == IF Trim(data.title) = <<>>
              THEN Spread(e0, [title |-> ErrTitleRequired]) ELSE e0
      e3 == IF Len(data.notes) > MAX_NOTES
              THEN Spread(e1, [notes |-> ErrNotesMax]) ELSE e1
  IN  e3

\* Lines 173-179.  The second title rule overwrites the first.
validateForm(data) ==
  LET e0 == NoErrors
      e1 == IF Trim(data.title) = <<>>
              THEN Spread(e0, [title |-> ErrTitleRequired]) ELSE e0
      e2 == IF Len(data.title) > MAX_TITLE
              THEN Spread(e1, [title |-> ErrTitleMax]) ELSE e1
      e3 == IF Len(data.notes) > MAX_NOTES
              THEN Spread(e2, [notes |-> ErrNotesMax]) ELSE e2
  IN  e3

\* Lines 181-189: openForm(tasks[i]), and openForm() when i = 0.
OpenForm(i) ==
  /\ Handler("openForm", NULL, i)
  /\ formData' =
       (IF i = 0 THEN DEFAULT_TASK
        ELSE [k \in DOMAIN DEFAULT_TASK |-> Get(tasks[i], k)])
  /\ editId' = (IF i = 0 THEN NULL ELSE Get(tasks[i], "id"))
  /\ formErrors' = NoErrors
  /\ showForm' = TRUE
  /\ UNCHANGED <<tasks, tasksType, loaded, noteVars, dragging, toast, envVars,
                 effects, dirty, crashed, now>>

\* The onChange handlers of the form's fields (lines 409-441), each of which
\* replaces one field of formData: d is what they leave in the form.
TypeForm(d) ==
  /\ Handler("typeForm", NULL, 0)
  /\ formData' = d
  /\ UNCHANGED <<tasks, tasksType, loaded, showForm, formErrors, editId,
                 noteVars, dragging, toast, envVars, effects, dirty, crashed, now>>

\* Line 191.
CloseForm ==
  /\ Handler("closeForm", NULL, 0)
  /\ showForm' = FALSE
  /\ formErrors' = NoErrors
  /\ UNCHANGED <<tasks, tasksType, loaded, formData, editId, noteVars, dragging,
                 toast, envVars, effects, dirty, crashed, now>>

\* An update that clears the stamp when the draft's stage is not Completed.
UpdatedTask_ClearsStamp(x, id, data) ==
  IF Get(x, "id") = id
    THEN Spread(Spread(x, data),
                [completedAt |-> IF data.stage = Completed
                                   THEN Get(x, "completedAt") ELSE NULL])
    ELSE x

\* Line 197: the element the updater puts in place of x.
UpdatedTask(x, id, data) == IF Get(x, "id") = id THEN Spread(x, data) ELSE x

\* A creation that stamps a task created in the last column.
CreatedTask_StampsCompleted(data, id, stamp) ==
  Spread(data, [id |-> id, createdAt |-> stamp,
                completedAt |-> IF data.stage = Completed THEN stamp ELSE NULL])

\* Line 200: the element the updater appends.
CreatedTask(data, id, stamp) ==
  Spread(data, [id |-> id, createdAt |-> stamp, completedAt |-> NULL])

\* Lines 193-204.  The clock is read by genId and by new Date().
SaveTask ==
  /\ Handler("saveTask", NULL, 0)
  /\ LET errs == validateForm(formData)
     IN  IF DOMAIN errs # {}
           THEN /\ formErrors' = errs
                /\ UNCHANGED <<tasks, showForm, toast, effects, crashed, now>>
         ELSE IF Truthy(editId)
           THEN /\ SetTasks([i \in 1..Len(tasks) |->
                               UpdatedTask(tasks[i], editId, formData)])
                /\ toast' = ToastUpdated
                /\ showForm' = FALSE
                /\ formErrors' = NoErrors
                /\ UNCHANGED now
         ELSE /\ \E t \in now..MaxClock, tail \in RandomTails :
                   /\ now' = t
                   /\ SetTasks(Append(tasks,
                        CreatedTask(formData, genId(t, tail), ToISOString(t))))
              /\ toast' = ToastCreated
              /\ showForm' = FALSE
              /\ formErrors' = NoErrors
  /\ UNCHANGED <<tasksType, loaded, formData, editId, noteVars, dragging,
                 envVars, dirty>>

\* ------------------------------------------------------------ card buttons
\* A filter with the comparison inverted.
WithoutTask_KeepsTarget(arr, id) == SelectSeq(arr, LAMBDA x : Get(x, "id") = id)

\* Line 206: what the updater makes of the collection.
WithoutTask(arr, id) == SelectSeq(arr, LAMBDA x : Get(x, "id") # id)

\* Line 206.
DeleteTask(id) ==
  /\ Handler("deleteTask", id, 0)
  /\ SetTasks(WithoutTask(tasks, id))
  /\ toast' = ToastDeleted
  /\ UNCHANGED <<tasksType, loaded, formVars, noteVars, dragging, envVars,
                 dirty, now>>

\* A move that leaves the stamp alone when the new stage is not Completed.
MovedTask_KeepsStamp(x, id, dir, stamp) ==
  IF Get(x, "id") # id THEN x
  ELSE LET next == ColumnAt(IndexOfColumn(Get(x, "stage")) + dir)
       IN  IF next = UNDEFINED THEN x
           ELSE Spread(x, [stage |-> next,
                           completedAt |-> IF next = Completed
                                             THEN stamp ELSE Get(x, "completedAt")])

\* Lines 210-213: the element the updater puts in place of x.
MovedTask(x, id, dir, stamp) ==
  IF Get(x, "id") # id THEN x
  ELSE LET next == ColumnAt(IndexOfColumn(Get(x, "stage")) + dir)
       IN  IF next = UNDEFINED THEN x
           ELSE Spread(x, [stage |-> next,
                           completedAt |-> IF next = Completed THEN stamp ELSE NULL])

\* Line 212 reads the clock only for an element that enters "Completed".
MoveReadsClock(arr, id, dir) ==
  \E i \in 1..Len(arr) :
    /\ Get(arr[i], "id") = id
    /\ ColumnAt(IndexOfColumn(Get(arr[i], "stage")) + dir) = Completed

\* Lines 208-215.
MoveTask(id, dir) ==
  /\ Handler("moveTask", id, dir)
  /\ \E t \in now..MaxClock :
       /\ now' = (IF MoveReadsClock(tasks, id, dir) THEN t ELSE now)
       /\ SetTasks([i \in 1..Len(tasks) |->
                      MovedTask(tasks[i], id, dir, ToISOString(t))])
  /\ UNCHANGED <<tasksType, loaded, formVars, noteVars, dragging, toast,
                 envVars, dirty>>

\* ------------------------------------------------------------------- notes
\* Line 217: openNote(tasks[i]).
OpenNote(i) ==
  /\ Handler("openNote", NULL, i)
  /\ activeNote' = Get(tasks[i], "id")
  /\ noteText' = (IF Truthy(Get(tasks[i], "notes")) THEN tasks[i].notes ELSE <<>>)
  /\ UNCHANGED <<tasks, tasksType, loaded, formVars, dragging, toast, envVars,
                 effects, dirty, crashed, now>>

\* Line 464: the onChange handler of the notes box.
TypeNote(text) ==
  /\ Handler("typeNote", NULL, 0)
  /\ noteText' = text
  /\ UNCHANGED <<tasks, tasksType, loaded, formVars, activeNote, dragging,
                 toast, envVars, effects, dirty, crashed, now>>

\* Lines 459 and 468: setActiveNote(null).
CloseNote ==
  /\ Handler("closeNote", NULL, 0)
  /\ activeNote' = NULL
  /\ UNCHANGED <<tasks, tasksType, loaded, formVars, noteText, dragging, toast,
                 envVars, effects, dirty, crashed, now>>

\* Line 221: the element the updater puts in place of x.
NotedTask(x, id, text) ==
  IF Get(x, "id") = id THEN Spread(x, [notes |-> text]) ELSE x

\* Lines 219-224.
SaveNote ==
  /\ Handler("saveNote", NULL, 0)
  /\ IF Len(noteText) > MAX_NOTES
       THEN /\ toast' = ToastNotesExceed
            /\ UNCHANGED <<tasks, activeNote, effects, crashed>>
       ELSE /\ SetTasks([i \in 1..Len(tasks) |->
                           NotedTask(tasks[i], activeNote, noteText)])
            /\ activeNote' = NULL
            /\ toast' = ToastNotesSaved
  /\ UNCHANGED <<tasksType, loaded, formVars, noteText, dragging, envVars,
                 dirty, now>>

\* ------------------------------------------------------------------ export
\* A selection that ignores the filter.
ExportSelection_IgnoresFilter(arr, filter) == arr

\* Line 228: the tasks the report is made of.
ExportSelection(arr, filter) ==
  IF filter = "completed"
    THEN SelectSeq(arr, LAMBDA x : Get(x, "stage") = Completed)
    ELSE arr

\* Lines 226-243.  XLSX.writeFile either writes the file or throws.
ExportToExcel(filter) ==
  /\ Handler("exportToExcel", <<filter>>, 0)
  /\ IF Len(ExportSelection(tasks, filter)) = 0
       THEN /\ toast' = ToastNoExport
            /\ UNCHANGED downloads
       ELSE \/ /\ downloads' = downloads + 1
               /\ toast' = ToastExported
            \/ /\ toast' = ToastExportFailed
               /\ UNCHANGED downloads
  /\ UNCHANGED <<tasks, tasksType, loaded, formVars, noteVars, dragging, store,
                 writeFailed, effects, dirty, crashed, now>>

\* ----------------------------------------------------------- drag and drop
\* Line 246.
OnDragStart(id) ==
  /\ Handler("onDragStart", id, 0)
  /\ dragging' = id
  /\ UNCHANGED <<tasks, tasksType, loaded, formVars, noteVars, toast, envVars,
                 effects, dirty, crashed, now>>

\* Line 248.
OnDragEnd ==
  /\ Handler("onDragEnd", NULL, 0)
  /\ dragging' = NULL
  /\ UNCHANGED <<tasks, tasksType, loaded, formVars, noteVars, toast, envVars,
                 effects, dirty, crashed, now>>

\* A drop that leaves the stamp alone when the column is not Completed.
DroppedTask_KeepsStamp(x, id, col, stamp) ==
  IF Get(x, "id") = id
    THEN Spread(x, [stage |-> col,
                    completedAt |-> IF col = Completed
                                      THEN stamp ELSE Get(x, "completedAt")])
    ELSE x

\* Lines 254-256: the element the updater puts in place of x.
DroppedTask(x, id, col, stamp) ==
  IF Get(x, "id") = id
    THEN Spread(x, [stage |-> col,
                    completedAt |-> IF col = Completed THEN stamp ELSE NULL])
    ELSE x

\* Lines 249-261.
OnDrop(col) ==
  /\ Handler("onDrop", col, 0)
  /\ IF /\ Truthy(dragging)
        /\ \E i \in 1..Len(tasks) :
             /\ Get(tasks[i], "id") = dragging
             /\ \A j \in 1..(i - 1) : Get(tasks[j], "id") # dragging
             /\ Get(tasks[i], "stage") # col
       THEN /\ \E t \in now..MaxClock :
                 /\ now' = (IF col = Completed THEN t ELSE now)
                 /\ SetTasks([i \in 1..Len(tasks) |->
                      DroppedTask(tasks[i], dragging, col, ToISOString(t))])
            /\ toast' = ToastMoved
       ELSE UNCHANGED <<tasks, toast, effects, crashed, now>>
  /\ dragging' = NULL
  /\ UNCHANGED <<tasksType, loaded, formVars, noteVars, envVars, dirty>>

\* ------------------------------------------------------------------- toast
\* Lines 66 and 475: the toast's timer clears the message.
ToastDone ==
  /\ Handler("toastDone", NULL, 0)
  /\ toast # NoToast
  /\ toast' = NoToast
  /\ UNCHANGED <<tasks, tasksType, loaded, formVars, noteVars, dragging,
                 envVars, effects, dirty, crashed, now>>

\* -------------------------------------------------------------------- next
Next ==
  \/ LoadEffect
  \/ Render
  \/ PersistEffect
  \/ \E i \in 0..Len(tasks) : OpenForm(i)
  \/ \E d \in Drafts : TypeForm(d)
  \/ CloseForm
  \/ SaveTask
  \/ \E id \in TaskIds \cup {NoSuchId} : DeleteTask(id)
  \/ \E id \in TaskIds, dir \in {-1, 1} : MoveTask(id, dir)
  \/ \E i \in 1..Len(tasks) : OpenNote(i)
  \/ \E text \in NoteTexts : TypeNote(text)
  \/ CloseNote
  \/ SaveNote
  \/ \E filter \in {"all", "completed"} : ExportToExcel(filter)
  \/ \E id \in TaskIds : OnDragStart(id)
  \/ OnDragEnd
  \/ \E col \in {COLUMNS[i] : i \in 1..Len(COLUMNS)} : OnDrop(col)
  \/ ToastDone

Spec == Init /\ [][Next]_vars

\* ================================================================== claims
\* A step in which the handler of the given name ran.
Step(name) == ops' = ops + 1 /\ op'.name = name

\* A value that is neither null nor undefined.
Present(v) == v # NULL /\ v # UNDEFINED

EditableFields == {"title", "priority", "category", "due", "notes", "stage"}
AllFields == EditableFields \cup {"id", "createdAt", "completedAt"}

TitleInvalid(d) == Trim(d.title) = <<>> \/ Len(d.title) > MAX_TITLE
NotesInvalid(d) == Len(d.notes) > MAX_NOTES
ValidDraft(d) == ~TitleInvalid(d) /\ ~NotesInvalid(d)

IdOne == <<"p","1">>
IdTwo == <<"p","2">>

CompletedAtIff(arr) ==
  \A i \in 1..Len(arr) :
    Present(Get(arr[i], "completedAt")) <=> (Get(arr[i], "stage") = Completed)

\* C1 as stated: in every reachable state every task has completedAt present
\* if and only if its stage is "Completed".
C1_CompletedAtIffCompleted == CompletedAtIff(tasks)

\* A saveTask step whose draft puts a task in or out of "Completed": a create
\* with the draft's stage "Completed", or an update whose draft's stage is
\* "Completed" when the task's is not, or the reverse.
FormCrossesCompleted ==
  /\ Step("saveTask")
  /\ ValidDraft(formData)
  /\ IF Truthy(editId)
       THEN \E i \in 1..Len(tasks) :
              /\ Get(tasks[i], "id") = editId
              /\ (Get(tasks[i], "stage") = Completed) # (formData.stage = Completed)
       ELSE formData.stage = Completed

\* C1 as amended: every step other than a saveTask that puts a task in or out
\* of "Completed" keeps "completedAt is present iff stage is Completed" true
\* of every task: moveTask, onDrop, saveNote, deleteTask, and the creates and
\* updates that leave alone whether the stage is "Completed".
C1_CompletedAtIffKeptByMoves ==
  [][(CompletedAtIff(tasks) /\ ~FormCrossesCompleted) => CompletedAtIff(tasks')]_vars

\* A drop has taken the second saved task out of "Completed" and cleared its
\* completedAt.
C1_Witness ==
  /\ op.name = "onDrop"
  /\ ops = 2
  /\ effects # <<>>
  /\ Len(tasks) = 2
  /\ tasks[2].id = IdTwo
  /\ tasks[2].stage = Backlog
  /\ tasks[2].completedAt = NULL

\* C2: a create with a valid draft leaves the previous collection as it was,
\* in order, and appends one task that carries the draft's six fields, an id,
\* the createdAt of the instant of the call, and a null completedAt.
C2_CreateAppendsOne ==
  [][(Step("saveTask") /\ ValidDraft(formData) /\ ~Truthy(editId)) =>
       /\ Len(tasks') = Len(tasks) + 1
       /\ SubSeq(tasks', 1, Len(tasks)) = tasks
       /\ LET n == tasks'[Len(tasks')]
          IN  /\ DOMAIN n = AllFields
              /\ \A k \in EditableFields : n[k] = formData[k]
              /\ Truthy(n.id)
              /\ n.createdAt = ToISOString(now')
              /\ n.completedAt = NULL]_vars

\* A task with the stage "Completed" has just been created after the two
\* saved tasks.
C2_Witness ==
  /\ op.name = "saveTask"
  /\ effects # <<>>
  /\ toast = ToastCreated
  /\ Len(tasks) = 3
  /\ SubSeq(tasks, 1, 2) = SavedTasks
  /\ tasks[3].stage = Completed

\* C3: a saveTask whose draft fails validation (create or update) changes no
\* task, reports an error for exactly the fields at fault, and leaves the
\* form as it was.
C3_InvalidDraftChangesNothing ==
  [][(Step("saveTask") /\ ~ValidDraft(formData)) =>
       /\ tasks' = tasks
       /\ effects' = effects
       /\ showForm' = showForm
       /\ ("title" \in DOMAIN formErrors') <=> TitleInvalid(formData)
       /\ ("notes" \in DOMAIN formErrors') <=> NotesInvalid(formData)]_vars

\* An update with notes of 2001 characters has been refused: the form is
\* open with the error, the collection is the saved one.
C3_Witness ==
  /\ op.name = "saveTask"
  /\ Truthy(editId)
  /\ showForm
  /\ Len(formData.notes) = MAX_NOTES + 1
  /\ "notes" \in DOMAIN formErrors
  /\ tasks = SavedTasks

\* C4: an update with a valid draft keeps the length and order of the
\* collection, gives every task with the edited id the draft's six fields
\* and leaves its id, createdAt and completedAt alone, and leaves every other
\* task alone.
C4_UpdateReplacesEditableOnly ==
  [][(Step("saveTask") /\ ValidDraft(formData) /\ Truthy(editId)) =>
       /\ Len(tasks') = Len(tasks)
       /\ \A i \in 1..Len(tasks) :
            IF Get(tasks[i], "id") = editId
              THEN /\ DOMAIN tasks'[i] = DOMAIN tasks[i]
                   /\ \A k \in EditableFields : tasks'[i][k] = formData[k]
                   /\ tasks'[i].id = tasks[i].id
                   /\ tasks'[i].createdAt = tasks[i].createdAt
                   /\ tasks'[i].completedAt = tasks[i].completedAt
              ELSE tasks'[i] = tasks[i]]_vars

\* The first saved task has just been updated with a draft whose stage is
\* "Completed": its completedAt is still null, the second task is untouched.
C4_Witness ==
  /\ op.name = "saveTask"
  /\ effects # <<>>
  /\ toast = ToastUpdated
  /\ Len(tasks) = 2
  /\ tasks[1].id = IdOne
  /\ editId = IdOne
  /\ tasks[1].stage = Completed
  /\ tasks[1].completedAt = NULL
  /\ tasks[2] = SavedTasks[2]

AtEnd(x, dir) ==
  \/ Get(x, "stage") = Backlog /\ dir = -1
  \/ Get(x, "stage") = Completed /\ dir = 1

\* C5: moveTask(id, -1) on a task in "Backlog" and moveTask(id, +1) on a
\* task in "Completed" change no task, show no message and crash nothing.
C5_MovePastEndIsNoOp ==
  [][(/\ Step("moveTask")
      /\ \E i \in 1..Len(tasks) : Get(tasks[i], "id") = op'.id
      /\ \A i \in 1..Len(tasks) :
           Get(tasks[i], "id") = op'.id => AtEnd(tasks[i], op'.n)) =>
       /\ tasks' = tasks
       /\ toast' = toast
       /\ crashed' = crashed]_vars

\* The first event of the session was moveTask(+1) on the saved task that is
\* in "Completed"; the collection is still the saved one.
C5_Witness ==
  /\ ops = 1
  /\ op = Op("moveTask", IdTwo, 1)
  /\ effects # <<>>
  /\ tasks = SavedTasks

\* The one-based position of a stage in COLUMNS.
StagePos(stage) == CHOOSE p \in 1..Len(COLUMNS) : COLUMNS[p] = stage

\* C6: a moveTask whose target index is in bounds gives the task the stage
\* one position away in COLUMNS, sets completedAt to the instant of the call
\* if that stage is "Completed" and to null otherwise, and changes nothing
\* else of that task and no other task.
C6_MoveSetsAdjacentStage ==
  [][Step("moveTask") =>
       /\ Len(tasks') = Len(tasks)
       /\ \A i \in 1..Len(tasks) :
            LET x == tasks[i]
                y == tasks'[i]
                j == StagePos(x.stage) + op'.n
            IN  IF x.id # op'.id THEN y = x
                ELSE IF j \in 1..Len(COLUMNS)
                  THEN /\ y.stage = COLUMNS[j]
                       /\ y.completedAt =
                            (IF COLUMNS[j] = Completed
                               THEN ToISOString(now') ELSE NULL)
                       /\ DOMAIN y = DOMAIN x
                       /\ \A k \in DOMAIN x \ {"stage", "completedAt"} :
                            y[k] = x[k]
                  ELSE TRUE]_vars

\* The second saved task was moved back and then, at instant 1, forward into
\* "Completed" again.
C6_Witness ==
  /\ ops = 2
  /\ op = Op("moveTask", IdTwo, 1)
  /\ effects # <<>>
  /\ Len(tasks) = 2
  /\ tasks[1] = SavedTasks[1]
  /\ tasks[2].stage = Completed
  /\ tasks[2].completedAt = ToISOString(1)

\* C7: after deleteTask(id) no task has that id, and the tasks with other ids
\* are all there, unchanged and in their previous order; when no task has the
\* id the collection is unchanged.
C7_DeleteRemovesOnlyTarget ==
  [][Step("deleteTask") =>
       LET id == op'.id
           keep == {i \in 1..Len(tasks) : Get(tasks[i], "id") # id}
       IN  /\ \A j \in 1..Len(tasks') : Get(tasks'[j], "id") # id
           /\ Len(tasks') = Cardinality(keep)
           /\ \A i \in keep :
                tasks'[Cardinality({j \in keep : j <= i})] = tasks[i]
           /\ (id \notin TaskIds => tasks' = tasks)]_vars

\* The first of three tasks has just been deleted: the second saved task and
\* the created one remain, in that order.
C7_Witness ==
  /\ op = Op("deleteTask", IdOne, 0)
  /\ effects # <<>>
  /\ Len(tasks) = 2
  /\ tasks[1] = SavedTasks[2]
  /\ tasks[2].id \notin {IdOne, IdTwo}

\* C8: when no write has failed and the handler, the render and the persist
\* effect have run, the key holds the serialization of the collection in
\* memory, and parsing it yields that collection.
C8_StoredIsCurrent ==
  (Idle /\ ~writeFailed) =>
     /\ store.present
     /\ store.text = JSONstringify(tasks)
     /\ LET p == JSONparse(store.text)
        IN  p.ok /\ p.type = "array" /\ p.val = tasks

\* A created task with a null completedAt has been written after the two
\* saved tasks.
C8_Witness ==
  /\ Idle
  /\ ~writeFailed
  /\ op.name = "saveTask"
  /\ Len(tasks) = 3
  /\ tasks[3].completedAt = NULL
  /\ store = StoreOf(JSONstringify(tasks))

\* C9: whatever the key holds at startup, the component does not crash and
\* the tasks state is an array; it is the empty one when the key is absent,
\* and the empty one with the load error shown when the text does not parse.
C9_LoadNeverCrashes ==
  /\ ~crashed
  /\ tasksType = "array"
  /\ (op.name = "load" /\ ~store.present) => tasks = <<>>
  /\ (op.name = "load" /\ store.present /\ Truthy(store.text)
        /\ ~JSONparse(store.text).ok) =>
       (tasks = <<>> /\ toast = ToastLoadFailed)

\* C10: no two tasks of the collection have the same id.
C10_IdsUnique ==
  \A i, j \in 1..Len(tasks) :
    i # j => Get(tasks[i], "id") # Get(tasks[j], "id")

\* Every task's title and notes are within their maxima.
LengthsOk(arr) ==
  \A i \in 1..Len(arr) :
    /\ Len(Get(arr[i], "title")) <= MAX_TITLE
    /\ Len(Get(arr[i], "notes")) <= MAX_NOTES

\* C11: no step (create, update and saveNote among them) takes a collection
\* whose titles have at most 100 characters and whose notes have at most 2000
\* to one where a title or the notes are longer; and a saveNote with a text of
\* more than 2000 characters shows the warning, changes no task, writes
\* nothing, and leaves the text and the notes box as they were.
C11_LengthsWithinMaxima ==
  [][/\ LengthsOk(tasks) => LengthsOk(tasks')
     /\ (Step("saveNote") /\ Len(noteText) > MAX_NOTES) =>
          /\ tasks' = tasks
          /\ effects' = effects
          /\ toast' = ToastNotesExceed
          /\ noteText' = noteText
          /\ activeNote' = activeNote]_vars

\* Notes of 2001 characters for the first saved task have just been refused:
\* the warning is shown, the box still holds the whole text, the collection
\* is the saved one.
C11_Witness ==
  /\ op.name = "saveNote"
  /\ toast = ToastNotesExceed
  /\ activeNote = IdOne
  /\ Len(noteText) = MAX_NOTES + 1
  /\ effects = <<>>
  /\ tasks = SavedTasks

\* The positions of the tasks a report of the given scope is made of.
InScope(arr, filter) ==
  {i \in 1..Len(arr) : filter = "all" \/ Get(arr[i], "stage") = Completed}

\* C12: an exportToExcel step, of either scope and whether it writes the
\* file, finds nothing to export or fails, changes neither the collection
\* nor what is stored and schedules no write; when no task is in scope it
\* shows the no-data message and writes no file.
C12_ExportLeavesTasksAlone ==
  [][Step("exportToExcel") =>
       /\ tasks' = tasks
       /\ tasksType' = tasksType
       /\ store' = store
       /\ effects' = effects
       /\ (InScope(tasks, op'.id[1]) = {}) =>
            (toast' = ToastNoExport /\ downloads' = downloads)
       /\ (InScope(tasks, op'.id[1]) # {}) =>
            toast' \in {ToastExported, ToastExportFailed}]_vars

\* The completed tasks of a collection of two in which none is completed
\* have just been exported: the no-data message is shown, no file was
\* written.
C12_Witness ==
  /\ op = Op("exportToExcel", <<"completed">>, 0)
  /\ Len(tasks) = 2
  /\ \A i \in 1..Len(tasks) : tasks[i].stage # Completed
  /\ toast = ToastNoExport
  /\ downloads = 0

\* The handlers that call setTasks.
MutationNames == {"saveTask", "deleteTask", "moveTask", "saveNote", "onDrop"}

\* C13 as stated: in no reachable state has a handler that calls setTasks
\* returned while the stored value differs from the serialization of the
\* collection in memory and no save error has been signalled.
C13_WriteDoneWhenHandlerReturns ==
  (~crashed /\ loaded /\ op.name \in MutationNames) =>
     \/ store = StoreOf(JSONstringify(tasks))
     \/ writeFailed
     \/ toast = ToastSaveFailed

\* C13 as amended: a handler that changes the collection returns with the
\* write of the new collection scheduled; while a write is scheduled no
\* handler runs; and the step that runs it either leaves the key holding the
\* serialization of the collection in memory or shows the save error and
\* leaves the key as it was.
C13_WriteFollowsHandler ==
  [][/\ (ops' = ops + 1 /\ tasks' # tasks) =>
          effects' = <<[fx |-> "persist", tasks |-> tasks', loaded |-> TRUE]>>
     /\ (effects # <<>> /\ Head(effects).loaded) =>
          /\ ops' = ops
          /\ effects' = <<>>
          /\ tasks' = tasks
          /\ \/ store' = StoreOf(JSONstringify(tasks))
             \/ toast' = ToastSaveFailed /\ store' = store]_vars

\* deleteTask has returned and its write has not run: the key still holds
\* the two saved tasks, the collection in memory has one, and no save error
\* was ever signalled.
C13_Witness ==
  /\ op = Op("deleteTask", IdOne, 0)
  /\ ~crashed
  /\ ~writeFailed
  /\ Len(effects) = 1
  /\ tasks = <<SavedTasks[2]>>
  /\ store = StoreOf(JSONstringify(SavedTasks))

\* The collection the load makes of what the key holds: the parsed array, and
\* the empty one when the key is absent, empty or does not parse.
Hydrated(st) ==
  LET p == JSONparse(st.text)
  IN  IF st.present /\ Truthy(st.text) /\ p.ok /\ p.type = "array"
        THEN p.val ELSE <<>>

\* C14: no step changes the key before the load has run, and the effect of
\* the first render, which saw loaded false, does not change it; until the
\* first event the key holds either what it held at startup or the
\* serialization of the collection the load made of that, so that a stored
\* collection of two tasks is never replaced by the empty one.
C14_NoWriteBeforeLoad ==
  [][/\ ~loaded => store' = store
     /\ (effects # <<>> /\ ~Head(effects).loaded) =>
          (store' = store /\ ~writeFailed')
     /\ (ops' = 0 /\ store' # store) =>
          /\ tasks = Hydrated(store)
          /\ store' = StoreOf(JSONstringify(Hydrated(store)))]_vars

\* The startup on a key that held the two saved tasks is over: the load and
\* both persist effects have run, the write succeeded, and the key and the
\* memory hold the two tasks.
C14_Witness ==
  /\ ops = 0
  /\ Idle
  /\ ~writeFailed
  /\ tasks = SavedTasks
  /\ Len(tasks) = 2
  /\ store = StoreOf(JSONstringify(SavedTasks))

====
